---- MODULE Spec2Model ----
(***************************************************************************)
(* A model of the stream parser of ralphwrapper (parser.ts and types.ts,   *)
(* both in src/unnamed/part_000) and of the way index.ts drives it.        *)
(*                                                                         *)
(* A line of input is a string.  The parser only ever asks three things    *)
(* of it: what is left after trim(), whether the marker regex finds a      *)
(* match in it (and with which digits), and what JSON.parse makes of it.   *)
(* A line is therefore modelled as a record carrying its surrounding       *)
(* whitespace, an optional embedded marker candidate, an optional JSON     *)
(* document and, for free text, its characters.                            *)
(*                                                                         *)
(* Optional values (a field that may be undefined) are sequences of        *)
(* length 0 or 1.  Strings the code inspects character by character are    *)
(* sequences of one-character strings.  Arrays are objects of a heap, so   *)
(* that two records can share one array, as they do in JavaScript.         *)
(***************************************************************************)
EXTENDS Integers, Sequences, FiniteSets, TLC

----------------------------------------------------------------------------
(* Bounds of the model *)

\* lines handed to parseLine in one behaviour
MaxLines == 3
\* the clock advances by 0..MaxClockStep milliseconds from one call to the next
MaxClockStep == 1
\* calls of reset() in one behaviour
MaxResets == 1
\* length of the over-long tool result content, beyond the truncation limit
LongExtra == 1
\* snapshots getStats() hands out in one behaviour
MaxSnapshots == 1
\* line events in one behaviour of the event loop
MaxPolledLines == 2
\* the pieces a line of chunked text is cut into at most
PiecesPerLine == 2
\* the longest chunk, in pieces and newlines
MaxChunkLen == 3
\* newlines in the text fed to parseChunk in one behaviour
MaxChunkedLines == 2
\* newlines in the tailed file
MaxFileLines == 2
\* the longest run of characters one write appends to the tailed file
MaxWriteLen == 3
\* writes to the tailed file in one behaviour
MaxWrites == 2

(* Program constants *)

\* /={10,}.../ : the least number of '=' on each side of a loop marker
MinEquals == 10
\* result.content.slice(0, 200)
ErrorSliceEnd == 200
\* parseInt(loopMatch[1], 10)
Radix == 10

----------------------------------------------------------------------------
(* Optional values *)

Absent == <<>>
Some(v) == <<v>>
Min(a, b) == IF a < b THEN a ELSE b

\* JavaScript truthiness of an optional string: undefined and '' are falsy
TruthyStr(o) == o # Absent /\ o[1] # ""
\* x || 0 on an optional number
OrZero(o) == IF o = Absent THEN 0 ELSE o[1]

----------------------------------------------------------------------------
(* Strings as character sequences *)

UpperCase == <<"A","B","C","D","E","F","G","H","I","J","K","L","M",
               "N","O","P","Q","R","S","T","U","V","W","X","Y","Z">>
LowerCase == <<"a","b","c","d","e","f","g","h","i","j","k","l","m",
               "n","o","p","q","r","s","t","u","v","w","x","y","z">>

toLowerCaseChar(c) ==
  IF \E i \in DOMAIN UpperCase : UpperCase[i] = c
  THEN LowerCase[CHOOSE i \in DOMAIN UpperCase : UpperCase[i] = c]
  ELSE c

\* toLowerCase left out: the content as it is
toLowerCaseForgotten(s) == s

toLowerCase(s) == [i \in DOMAIN s |-> toLowerCaseChar(s[i])]

includes(s, sub) ==
  \E i \in 0..(Len(s) - Len(sub)) : SubSeq(s, i + 1, i + Len(sub)) = sub

\* slice keeping one character too many
sliceOneMore(s, end) == SubSeq(s, 1, Min(end + 1, Len(s)))

\* s.slice(0, end)
slice(s, end) == SubSeq(s, 1, Min(end, Len(s)))

GitPush == <<"g","i","t"," ","p","u","s","h">>
GitCommit == <<"g","i","t"," ","c","o","m","m","i","t">>

RECURSIVE joinNothing(_)
\* texts.join('')
joinNothing(texts) ==
  IF texts = <<>> THEN <<>> ELSE texts[1] \o joinNothing(Tail(texts))

RECURSIVE joinNewline(_)
\* texts.join('\n')
joinNewline(texts) ==
  IF texts = <<>> THEN <<>>
  ELSE IF Len(texts) = 1 THEN texts[1]
  ELSE texts[1] \o <<"\n">> \o joinNewline(Tail(texts))

RECURSIVE parseIntDigits(_, _)
\* parseInt(digits, 10) on a non-empty run of decimal digits
parseIntDigits(digits, acc) ==
  IF digits = <<>> THEN acc
  ELSE parseIntDigits(Tail(digits), acc * Radix + digits[1])

parseInt(digits) == parseIntDigits(digits, 0)

----------------------------------------------------------------------------
(* The JSON documents of types.ts, as JSON.parse returns them.  Every field *)
(* is optional at run time whatever the interface says.                     *)

\* TokenUsage
Usage(inp, out, cread, ccreate) ==
  [input_tokens |-> inp, output_tokens |-> out,
   cache_read_input_tokens |-> cread, cache_creation_input_tokens |-> ccreate]

\* an item of a content array; the fields an item kind lacks are Absent
Item(type, id, name, input, text, tool_use_id, content, is_error) ==
  [type |-> type, id |-> id, name |-> name, input |-> input, text |-> text,
   tool_use_id |-> tool_use_id, content |-> content, is_error |-> is_error]

\* ToolUse
ToolUseItem(id, name) ==
  Item("tool_use", id, name, "params", Absent, Absent, Absent, FALSE)
TextItem(text) ==
  Item("text", Absent, Absent, Absent, text, Absent, Absent, FALSE)
\* an item of UserMessage.message.content
ToolResultItem(tool_use_id, content, is_error) ==
  Item("tool_result", Absent, Absent, Absent, Absent, tool_use_id, content, is_error)

\* a content value: an array of items, or a value that is no array (a number)
ContentArray(items) == [array |-> TRUE, items |-> items]
ContentNotArray == [array |-> FALSE, items |-> <<>>]

\* the message object of an AssistantMessage or a UserMessage
Message(model, usage, content) ==
  [model |-> model, usage |-> usage, content |-> content]

\* a parsed document: JSON null, or an object with an optional type
Doc(type, message, session_id, tool_use_result) ==
  [null |-> FALSE, type |-> type, message |-> message,
   session_id |-> session_id, tool_use_result |-> tool_use_result]
NullDoc ==
  [null |-> TRUE, type |-> Absent, message |-> Absent,
   session_id |-> Absent, tool_use_result |-> Absent]

AssistantDoc(model, usage, content, session_id) ==
  Doc(Some("assistant"), Some(Message(model, usage, content)), session_id, Absent)
UserDoc(content, tool_use_result) ==
  Doc(Some("user"), Some(Message(Absent, Absent, content)), Absent, tool_use_result)

----------------------------------------------------------------------------
(* Lines *)

\* a run of '=', LOOP, a run of digits, a run of '='
MarkerText(eqLeft, digits, eqRight) ==
  [eqLeft |-> eqLeft, digits |-> digits, eqRight |-> eqRight]

\* lead and trail count the whitespace characters around the line's text
Line(lead, trail, text, marker, doc) ==
  [lead |-> lead, trail |-> trail, text |-> text, marker |-> marker, doc |-> doc]

PlainLine(text) == Line(0, 0, text, Absent, Absent)
MarkerLine(eqLeft, digits, eqRight) ==
  Line(0, 0, <<>>, Some(MarkerText(eqLeft, digits, eqRight)), Absent)
JsonLine(doc) == Line(0, 0, <<>>, Absent, Some(doc))
\* a JSON document one of whose strings holds a marker
JsonLineWithMarker(doc, eqLeft, digits, eqRight) ==
  Line(0, 0, <<>>, Some(MarkerText(eqLeft, digits, eqRight)), Some(doc))
Padded(line) == [line EXCEPT !.lead = 1, !.trail = 2]

----------------------------------------------------------------------------
(* The parser's state, passed through its methods as one record:            *)
(*   stats   - this.stats, whose toolCalls and errors are heap references   *)
(*   heap    - the arrays allocated so far, by reference                    *)
(*   pending - this.pendingToolCalls, a map from id to {name, startTime}    *)
(*   buffer  - this.buffer, the characters parseChunk holds back            *)

Engine(s, h, p, b) == [stats |-> s, heap |-> h, pending |-> p, buffer |-> b]

\* what a method hands back: the state it leaves and its return value
Outcome(e, ret) == [eng |-> e, ret |-> ret]

\* ParsedEvent
ParsedEvent(type, data, raw, t) ==
  [type |-> type, data |-> data, raw |-> raw, timestamp |-> t]

\* a return of null
NullReturn == [type |-> "null"]
\* an exception leaving a method instead of a value
Thrown(name) == [type |-> "throw", error |-> name]

EmptyMap == [k \in {} |-> Absent]
\* Map.set
mapSet(m, key, val) ==
  [k \in DOMAIN m \cup {key} |-> IF k = key THEN val ELSE m[k]]
\* Map.get, undefined when the key is not there
mapGet(m, key) == IF key \in DOMAIN m THEN Some(m[key]) ELSE Absent
\* Map.delete that deletes nothing
mapDeleteNothing(m, key) == m

\* Map.delete
mapDelete(m, key) == [k \in DOMAIN m \ {key} |-> m[k]]

\* Array.unshift in the place of push
arrayUnshift(h, ref, v) == [h EXCEPT ![ref] = <<v>> \o @]

\* Array.push on the array a reference names
arrayPush(h, ref, v) == [h EXCEPT ![ref] = Append(@, v)]

EmptyHeap == [r \in {} |-> <<>>]
\* a reference no array of the heap has yet
freshRef(h) == CHOOSE r \in 1..(Cardinality(DOMAIN h) + 1) : r \notin DOMAIN h
\* [] : a new, empty array
newArray(h) ==
  LET r == freshRef(h)
  IN  [ref |-> r, heap |-> [x \in DOMAIN h \cup {r} |-> IF x = r THEN <<>> ELSE h[x]]]
\* what the garbage collector leaves: the arrays some root still refers to
collect(h, roots) == [r \in DOMAIN h \cap roots |-> h[r]]

createInitialStats(h, t) ==
  LET calls == newArray(h)
      errs == newArray(calls.heap)
  IN  [stats |-> [iteration |-> 0,
                  startTime |-> t,
                  totalInputTokens |-> 0,
                  totalOutputTokens |-> 0,
                  totalCacheReadTokens |-> 0,
                  totalCacheCreationTokens |-> 0,
                  toolCalls |-> calls.ref,
                  errors |-> errs.ref,
                  currentModel |-> "unknown",
                  sessionId |-> "",
                  lastActivity |-> t],
       heap |-> errs.heap]

\* this.stats.lastCommitTime = t, on a record that may not have the field yet
setLastCommitTime(s, t) ==
  [iteration |-> s.iteration,
   startTime |-> s.startTime,
   totalInputTokens |-> s.totalInputTokens,
   totalOutputTokens |-> s.totalOutputTokens,
   totalCacheReadTokens |-> s.totalCacheReadTokens,
   totalCacheCreationTokens |-> s.totalCacheCreationTokens,
   toolCalls |-> s.toolCalls,
   errors |-> s.errors,
   currentModel |-> s.currentModel,
   sessionId |-> s.sessionId,
   lastActivity |-> s.lastActivity,
   lastCommitTime |-> t]

\* stats.lastCommitTime, undefined while the field has never been set
lastCommitTimeOf(s) ==
  IF "lastCommitTime" \in DOMAIN s THEN Some(s.lastCommitTime) ELSE Absent

----------------------------------------------------------------------------
(* processAssistantMessage *)

\* addUsage with the two cache fields added to each other's total
addUsageCacheSwapped(s, usage) ==
  [s EXCEPT !.totalInputTokens = @ + OrZero(usage.input_tokens),
            !.totalOutputTokens = @ + OrZero(usage.output_tokens),
            !.totalCacheReadTokens = @ + OrZero(usage.cache_creation_input_tokens),
            !.totalCacheCreationTokens = @ + OrZero(usage.cache_read_input_tokens)]

\* the four += of the usage block
addUsage(s, usage) ==
  [s EXCEPT !.totalInputTokens = @ + OrZero(usage.input_tokens),
            !.totalOutputTokens = @ + OrZero(usage.output_tokens),
            !.totalCacheReadTokens = @ + OrZero(usage.cache_read_input_tokens),
            !.totalCacheCreationTokens = @ + OrZero(usage.cache_creation_input_tokens)]

\* updateModelAndSession taking every string the message carries, the empty
\* one too
updateModelAndSessionTakingEmpty(s, model, session_id) ==
  [s EXCEPT !.currentModel = IF model # Absent THEN model[1] ELSE @,
            !.sessionId = IF session_id # Absent THEN session_id[1] ELSE @]

\* currentModel = model || currentModel; sessionId = session_id || sessionId
updateModelAndSession(s, model, session_id) ==
  [s EXCEPT !.currentModel = IF TruthyStr(model) THEN model[1] ELSE @,
            !.sessionId = IF TruthyStr(session_id) THEN session_id[1] ELSE @]

isToolUse(c) == c.type = "tool_use"
isText(c) == c.type = "text"
isToolResult(c) == c.type = "tool_result"

\* registerToolUses registering only the invocation the event surfaces
registerFirstToolUse(p, toolUses, t) ==
  IF toolUses = <<>> THEN p
  ELSE mapSet(p, toolUses[1].id, [name |-> toolUses[1].name, startTime |-> t])

RECURSIVE registerToolUses(_, _, _)
\* the for loop over toolUses, each a pendingToolCalls.set
registerToolUses(p, toolUses, t) ==
  IF toolUses = <<>> THEN p
  ELSE registerToolUses(
         mapSet(p, toolUses[1].id, [name |-> toolUses[1].name, startTime |-> t]),
         Tail(toolUses), t)

textsOf(items) == [i \in DOMAIN items |-> items[i].text[1]]

\* assistantEvent surfacing the last tool invocation of the message
assistantEventOfLast(msg, m, toolUses, textContent, raw, t) ==
  IF Len(toolUses) > 0
  THEN ParsedEvent("tool_call",
                   [name |-> toolUses[Len(toolUses)].name,
                    input |-> toolUses[Len(toolUses)].input,
                    id |-> toolUses[Len(toolUses)].id, model |-> m.model], raw, t)
  ELSE IF Len(textContent) > 0
  THEN ParsedEvent("text",
                   [text |-> joinNewline(textsOf(textContent)), model |-> m.model],
                   raw, t)
  ELSE ParsedEvent("unknown", [msg |-> msg], raw, t)

\* the event the method returns once the state is updated
assistantEvent(msg, m, toolUses, textContent, raw, t) ==
  IF Len(toolUses) > 0
  THEN ParsedEvent("tool_call",
                   [name |-> toolUses[1].name, input |-> toolUses[1].input,
                    id |-> toolUses[1].id, model |-> m.model], raw, t)
  ELSE IF Len(textContent) > 0
  THEN ParsedEvent("text",
                   [text |-> joinNewline(textsOf(textContent)), model |-> m.model],
                   raw, t)
  ELSE ParsedEvent("unknown", [msg |-> msg], raw, t)

processAssistantMessage(e, msg, raw, t) ==
  IF msg.message = Absent
  THEN Outcome(e, Thrown("TypeError"))
  ELSE
    LET m == msg.message[1]
        s1 == IF m.usage # Absent THEN addUsage(e.stats, m.usage[1]) ELSE e.stats
        s2 == updateModelAndSession(s1, m.model, msg.session_id)
        e2 == [e EXCEPT !.stats = s2]
    IN  IF m.content # Absent /\ ~m.content[1].array
        THEN Outcome(e2, Thrown("TypeError"))
        ELSE
          LET items == IF m.content = Absent THEN <<>> ELSE m.content[1].items
              toolUses == SelectSeq(items, isToolUse)
              textContent == SelectSeq(items, isText)
              e3 == [e2 EXCEPT !.pending = registerToolUses(@, toolUses, t)]
          IN  Outcome(e3, assistantEvent(msg, m, toolUses, textContent, raw, t))

----------------------------------------------------------------------------
(* processUserMessage *)

\* the index of the last tool_result item in the place of the first
lastToolResult(items) ==
  IF \E i \in DOMAIN items : isToolResult(items[i])
  THEN CHOOSE i \in DOMAIN items :
         isToolResult(items[i]) /\ \A j \in (i + 1)..Len(items) : ~isToolResult(items[j])
  ELSE 0

\* the index of the first tool_result item, 0 when there is none
firstToolResult(items) ==
  IF \E i \in DOMAIN items : isToolResult(items[i])
  THEN CHOOSE i \in DOMAIN items :
         isToolResult(items[i]) /\ \A j \in 1..(i - 1) : ~isToolResult(items[j])
  ELSE 0

\* pending ? Date.now() - pending.startTime.getTime() : undefined
durationOf(pending, t) ==
  IF pending # Absent THEN Some(t - pending[1].startTime) ELSE Absent

\* recordName without the fallback: pending?.name
recordNameNoFallback(pending) ==
  IF pending # Absent THEN pending[1].name ELSE "undefined"

\* pending?.name || 'unknown'
recordName(pending) ==
  IF pending # Absent /\ pending[1].name # "" THEN pending[1].name ELSE "unknown"

\* the record pushed on stats.toolCalls
toolCallRecord(pending, result, t) ==
  [name |-> recordName(pending),
   timestamp |-> t,
   success |-> ~result.is_error,
   duration |-> durationOf(pending, t)]

\* content.includes('git push') || content.includes('git commit'), lowercased
mentionsCommit(content) ==
  \/ includes(toLowerCase(content), GitPush)
  \/ includes(toLowerCase(content), GitCommit)

\* if (!result.is_error && result.content) { ... lastCommitTime = new Date() }
trackCommit(s, result, t) ==
  IF ~result.is_error /\ result.content # Absent /\ result.content[1] # <<>>
     /\ mentionsCommit(result.content[1])
  THEN setLastCommitTime(s, t)
  ELSE s

toolResultEvent(msg, pending, result, raw, t) ==
  ParsedEvent("tool_result",
              [toolName |-> IF pending # Absent THEN Some(pending[1].name) ELSE Absent,
               success |-> ~result.is_error,
               content |-> result.content,
               duration |-> durationOf(pending, t),
               stdout |-> IF msg.tool_use_result # Absent
                          THEN msg.tool_use_result[1].stdout ELSE Absent,
               stderr |-> IF msg.tool_use_result # Absent
                          THEN msg.tool_use_result[1].stderr ELSE Absent],
              raw, t)

\* the body of the loop for the first item that is a tool_result
processToolResult(e, msg, result, raw, t) ==
  LET pending == mapGet(e.pending, result.tool_use_id)
      e1 == [e EXCEPT !.heap =
               arrayPush(@, e.stats.toolCalls, toolCallRecord(pending, result, t))]
  IN  IF result.is_error /\ result.content = Absent
      THEN Outcome(e1, Thrown("TypeError"))
      ELSE
        LET e2 == IF result.is_error
                  THEN [e1 EXCEPT !.heap =
                          arrayPush(@, e.stats.errors,
                                    slice(result.content[1], ErrorSliceEnd))]
                  ELSE e1
            e3 == [e2 EXCEPT !.stats = trackCommit(@, result, t)]
            e4 == [e3 EXCEPT !.pending = mapDelete(@, result.tool_use_id)]
        IN  Outcome(e4, toolResultEvent(msg, pending, result, raw, t))

processUserMessage(e, msg, raw, t) ==
  IF msg.message = Absent
  THEN Outcome(e, Thrown("TypeError"))
  ELSE
    LET m == msg.message[1]
    IN  IF m.content # Absent /\ ~m.content[1].array
        THEN Outcome(e, Thrown("TypeError"))
        ELSE
          LET results == IF m.content = Absent THEN <<>> ELSE m.content[1].items
              i == firstToolResult(results)
          IN  IF i = 0
              THEN Outcome(e, ParsedEvent("unknown", [msg |-> msg], raw, t))
              ELSE processToolResult(e, msg, results[i], raw, t)

----------------------------------------------------------------------------
(* processMessage and parseLine *)

\* processMessage setting lastActivity in its two message branches only
processMessageActivityOnMessages(e, msg, raw, t) ==
  LET e1 == [e EXCEPT !.stats.lastActivity = t]
  IN  IF msg.null
      THEN Outcome(e, Thrown("TypeError"))
      ELSE IF msg.type = Some("assistant")
      THEN processAssistantMessage(e1, msg, raw, t)
      ELSE IF msg.type = Some("user")
      THEN processUserMessage(e1, msg, raw, t)
      ELSE Outcome(e, ParsedEvent("unknown", [msg |-> msg], raw, t))

\* processMessage leaving lastActivity as it is
processMessageLeavingActivity(e, msg, raw, t) ==
  IF msg.null
  THEN Outcome(e, Thrown("TypeError"))
  ELSE IF msg.type = Some("assistant")
  THEN processAssistantMessage(e, msg, raw, t)
  ELSE IF msg.type = Some("user")
  THEN processUserMessage(e, msg, raw, t)
  ELSE Outcome(e, ParsedEvent("unknown", [msg |-> msg], raw, t))

processMessage(e, msg, raw, t) ==
  LET e1 == [e EXCEPT !.stats.lastActivity = t]
  IN  IF msg.null
      THEN Outcome(e1, Thrown("TypeError"))
      ELSE IF msg.type = Some("assistant")
      THEN processAssistantMessage(e1, msg, raw, t)
      ELSE IF msg.type = Some("user")
      THEN processUserMessage(e1, msg, raw, t)
      ELSE Outcome(e1, ParsedEvent("unknown", [msg |-> msg], raw, t))

\* line.trim()
trim(line) == [line EXCEPT !.lead = 0, !.trail = 0]

\* !trimmed : the trimmed line is the empty string
isEmptyString(trimmed) ==
  trimmed.text = <<>> /\ trimmed.marker = Absent /\ trimmed.doc = Absent

\* trimmed.match(/={10,}\s*LOOP\s*(\d+)\s*={10,}/) : the digits of group 1
loopMatch(trimmed) ==
  IF /\ trimmed.marker # Absent
     /\ trimmed.marker[1].eqLeft >= MinEquals
     /\ trimmed.marker[1].eqRight >= MinEquals
     /\ Len(trimmed.marker[1].digits) >= 1
  THEN Some(trimmed.marker[1].digits)
  ELSE Absent

\* the catch block of parseLine
caughtAsUnknown(e, trimmed, line, t) ==
  Outcome(e, ParsedEvent("unknown", [text |-> trimmed], line, t))

\* tryParseJson without the try: what JSON.parse or processMessage throws
\* leaves parseLine
tryParseJsonUncaught(e, trimmed, line, t) ==
  IF trimmed.doc = Absent
  THEN Outcome(e, Thrown("SyntaxError"))
  ELSE processMessage(e, trimmed.doc[1], line, t)

\* the try block of parseLine with its catch
tryParseJson(e, trimmed, line, t) ==
  IF trimmed.doc = Absent
  THEN caughtAsUnknown(e, trimmed, line, t)
  ELSE
    LET out == processMessage(e, trimmed.doc[1], line, t)
    IN  IF out.ret.type = "throw"
        THEN caughtAsUnknown(out.eng, trimmed, line, t)
        ELSE out

\* applyLoopMarker keeping the iteration when the marker's number is smaller
applyLoopMarkerMonotonic(e, digits, line, t) ==
  LET e1 == [e EXCEPT !.stats.iteration =
               IF parseInt(digits) > @ THEN parseInt(digits) ELSE @]
  IN  Outcome(e1, ParsedEvent("loop_marker",
                              [iteration |-> e1.stats.iteration], line, t))

\* applyLoopMarker counting iterations from 0
applyLoopMarkerZeroBased(e, digits, line, t) ==
  LET e1 == [e EXCEPT !.stats.iteration = parseInt(digits) - 1]
  IN  Outcome(e1, ParsedEvent("loop_marker",
                              [iteration |-> e1.stats.iteration], line, t))

\* the loop marker branch of parseLine
applyLoopMarker(e, digits, line, t) ==
  LET e1 == [e EXCEPT !.stats.iteration = parseInt(digits)]
  IN  Outcome(e1, ParsedEvent("loop_marker",
                              [iteration |-> e1.stats.iteration], line, t))

\* parseLine trying JSON.parse before the loop marker
parseLineJsonFirst(e, line, t) ==
  LET trimmed == trim(line)
  IN  IF isEmptyString(trimmed)
      THEN Outcome(e, NullReturn)
      ELSE IF trimmed.doc # Absent
      THEN tryParseJson(e, trimmed, line, t)
      ELSE IF loopMatch(trimmed) # Absent
      THEN applyLoopMarker(e, loopMatch(trimmed)[1], line, t)
      ELSE tryParseJson(e, trimmed, line, t)

parseLine(e, line, t) ==
  LET trimmed == trim(line)
  IN  IF isEmptyString(trimmed)
      THEN Outcome(e, NullReturn)
      ELSE IF loopMatch(trimmed) # Absent
      THEN applyLoopMarker(e, loopMatch(trimmed)[1], line, t)
      ELSE tryParseJson(e, trimmed, line, t)

\* reset() forgetting pendingToolCalls.clear()
resetKeepingPending(e, t) ==
  LET init == createInitialStats(e.heap, t)
  IN  Engine(init.stats, init.heap, e.pending, <<>>)

\* reset(): an empty buffer, fresh stats on fresh arrays, an empty map
reset(e, t) ==
  LET init == createInitialStats(e.heap, t)
  IN  Engine(init.stats, init.heap, EmptyMap, <<>>)

\* getStats(): { ...this.stats }, a new record with the same field values,
\* so its toolCalls and errors are the parser's own arrays
getStats(e) == e.stats

\* the fields of its argument Dashboard.updateStats reads a property or calls
\* a method of: startTime.getTime(), toolCalls.filter, .length and .slice,
\* currentModel.split, subagents.length, and n.toString() in formatNumber
\* for the input and output totals
DereferencedFields ==
  {"startTime", "toolCalls", "currentModel", "subagents",
   "totalInputTokens", "totalOutputTokens"}

\* Dashboard.updateStats(stats): a TypeError when a field it dereferences is
\* undefined, the boxes rendered otherwise
updateStats(s) ==
  IF DereferencedFields \subseteq DOMAIN s
  THEN NullReturn
  ELSE Thrown("TypeError")

----------------------------------------------------------------------------
(* parseChunk.  A text is a sequence of characters; a chunk can end         *)
(* anywhere in it.  The characters of a line are kept as the pieces a cut   *)
(* can leave of it: piece i of line L, PiecesPerLine of them to a line, and *)
(* the newline.  The empty line has no piece.                               *)

piece(line, i) == [of |-> line, part |-> i]
\* the newline, a character like the others: part 0 of the line "\n"
Newline == piece(PlainLine(<<"\n">>), 0)

\* the characters of a line
piecesOf(line) ==
  IF line = PlainLine(<<>>) THEN <<>>
  ELSE [i \in 1..PiecesPerLine |-> piece(line, i)]

\* the string a run of characters without newline spells: the line itself
\* when every piece of it is there in order, and otherwise a fragment, which
\* is neither a loop marker nor JSON
lineFrom(run) ==
  IF run = <<>> THEN PlainLine(<<>>)
  ELSE IF /\ Len(run) = PiecesPerLine
          /\ \A i \in DOMAIN run : run[i] = piece(run[1].of, i)
  THEN run[1].of
  ELSE Line(0, 0, run, Absent, Absent)

RECURSIVE splitNewline(_)
\* str.split('\n'): the runs between the newlines, one more than newlines
splitNewline(str) ==
  IF \A i \in DOMAIN str : str[i] # Newline
  THEN <<str>>
  ELSE LET n == CHOOSE i \in DOMAIN str :
                  str[i] = Newline /\ \A j \in 1..(i - 1) : str[j] # Newline
       IN  <<SubSeq(str, 1, n - 1)>> \o splitNewline(SubSeq(str, n + 1, Len(str)))

\* this.buffer += chunk, the buffer forgotten
joinBufferDropped(buf, chunk) == chunk

\* this.buffer += chunk
joinBuffer(buf, chunk) == buf \o chunk

RECURSIVE parseLines(_, _, _, _)
\* the for loop of parseChunk: parseLine on each line, the events that are
\* not null collected
parseLines(e, runs, events, t) ==
  IF runs = <<>>
  THEN Outcome(e, events)
  ELSE LET out == parseLine(e, lineFrom(runs[1]), t)
       IN  parseLines(out.eng, Tail(runs),
                      IF out.ret = NullReturn THEN events ELSE Append(events, out.ret),
                      t)

parseChunk(e, chunk, t) ==
  LET lines == splitNewline(joinBuffer(e.buffer, chunk))
      \* lines.pop() || ''
      last == lines[Len(lines)]
      e1 == [e EXCEPT !.buffer = last]
  IN  parseLines(e1, SubSeq(lines, 1, Len(lines) - 1), <<>>, t)

----------------------------------------------------------------------------
(* parseLine statement by statement: the states the parser is in after     *)
(* each statement of one call that writes to it, the last of them the      *)
(* state the call returns in                                               *)

\* the for loop over toolUses, one state for each pendingToolCalls.set
registerSteps(e, toolUses, t) ==
  [i \in 1..Len(toolUses) |->
     [e EXCEPT !.pending = registerToolUses(@, SubSeq(toolUses, 1, i), t)]]

processAssistantSteps(e, msg, t) ==
  IF msg.message = Absent
  THEN <<>>
  ELSE
    LET m == msg.message[1]
        e1 == IF m.usage # Absent
              THEN [e EXCEPT !.stats = addUsage(@, m.usage[1])] ELSE e
        e2 == [e1 EXCEPT !.stats = updateModelAndSession(@, m.model, Absent)]
        e3 == [e2 EXCEPT !.stats = updateModelAndSession(@, Absent, msg.session_id)]
        toolUses == IF m.content # Absent /\ m.content[1].array
                    THEN SelectSeq(m.content[1].items, isToolUse) ELSE <<>>
    IN  (IF m.usage # Absent THEN <<e1>> ELSE <<>>)
        \o <<e2, e3>> \o registerSteps(e3, toolUses, t)

processToolResultSteps(e, result, t) ==
  LET pending == mapGet(e.pending, result.tool_use_id)
      e1 == [e EXCEPT !.heap =
               arrayPush(@, e.stats.toolCalls, toolCallRecord(pending, result, t))]
  IN  IF result.is_error /\ result.content = Absent
      THEN <<e1>>
      ELSE
        LET e2 == IF result.is_error
                  THEN [e1 EXCEPT !.heap =
                          arrayPush(@, e.stats.errors,
                                    slice(result.content[1], ErrorSliceEnd))]
                  ELSE e1
            e3 == [e2 EXCEPT !.stats = trackCommit(@, result, t)]
            e4 == [e3 EXCEPT !.pending = mapDelete(@, result.tool_use_id)]
        IN  <<e1>> \o (IF result.is_error THEN <<e2>> ELSE <<>>)
            \o (IF e3 # e2 THEN <<e3>> ELSE <<>>) \o <<e4>>

processUserSteps(e, msg, t) ==
  IF msg.message = Absent
     \/ (msg.message[1].content # Absent /\ ~msg.message[1].content[1].array)
  THEN <<>>
  ELSE
    LET results == IF msg.message[1].content = Absent
                   THEN <<>> ELSE msg.message[1].content[1].items
        i == firstToolResult(results)
    IN  IF i = 0 THEN <<>> ELSE processToolResultSteps(e, results[i], t)

processMessageSteps(e, msg, t) ==
  LET e1 == [e EXCEPT !.stats.lastActivity = t]
  IN  <<e1>> \o
      (IF msg.null THEN <<>>
       ELSE IF msg.type = Some("assistant") THEN processAssistantSteps(e1, msg, t)
       ELSE IF msg.type = Some("user") THEN processUserSteps(e1, msg, t)
       ELSE <<>>)

\* a call that writes nothing still returns: one state, the one it found
parseLineSteps(e, line, t) ==
  LET trimmed == trim(line)
  IN  IF isEmptyString(trimmed)
      THEN <<e>>
      ELSE IF loopMatch(trimmed) # Absent
      THEN <<applyLoopMarker(e, loopMatch(trimmed)[1], line, t).eng>>
      ELSE IF trimmed.doc = Absent
      THEN <<e>>
      ELSE processMessageSteps(e, trimmed.doc[1], t)

----------------------------------------------------------------------------
(* The lines the model feeds the parser *)

Hi == <<"h","i">>
Yo == <<"y","o">>
Boom == <<"b","o","o","m">>
Okay == <<"o","k">>
NotJson == <<"n","o","t"," ","j","s","o","n">>
CommitCmd == <<"g","i","t"," ","c","o","m","m","i","t"," ","-","m"," ","x">>
PushUpper == <<"$"," ","G","i","T"," ","P","U","S","H">>
\* a content longer than the slice keeps
LongContent == [i \in 1..(ErrorSliceEnd + LongExtra) |-> "x"]

FullUsage == Usage(Some(3), Some(1), Some(2), Some(4))
\* only input_tokens is there
PartialUsage == Usage(Some(5), Absent, Absent, Absent)

BlankLines == { PlainLine(<<>>), Padded(PlainLine(<<>>)) }

MarkerLines ==
  { MarkerLine(10, <<7>>, 10),
    Padded(MarkerLine(12, <<0, 3>>, 11)) }

\* free text, and a marker with one '=' too few
TextLines ==
  { Padded(PlainLine(NotJson)),
    MarkerLine(9, <<5>>, 10) }

OtherJsonLines ==
  { JsonLine(NullDoc),
    JsonLine(Doc(Some("system"), Absent, Some("s9"), Absent)) }

AssistantLines ==
  { JsonLine(AssistantDoc(Some("m1"), Some(FullUsage),
                          Some(ContentArray(<<ToolUseItem("X", "Bash")>>)),
                          Some("s1"))),
    JsonLine(AssistantDoc(Absent, Some(PartialUsage),
                          Some(ContentArray(<<TextItem(Some(Hi)), TextItem(Some(Yo))>>)),
                          Absent)),
    JsonLine(AssistantDoc(Some("m2"), Absent,
                          Some(ContentArray(<<TextItem(Some(Hi)),
                                              ToolUseItem("X", "Read"),
                                              ToolUseItem("Y", "Bash")>>)),
                          Some("s2"))),
    JsonLine(AssistantDoc(Some(""), Some(PartialUsage), Some(ContentArray(<<>>)),
                          Some(""))),
    JsonLineWithMarker(
      AssistantDoc(Some("m2"), Some(FullUsage),
                   Some(ContentArray(<<ToolUseItem("Y", "Bash")>>)), Some("s2")),
      10, <<2>>, 10) }

\* an assistant message without message, and one whose content is no array
MalformedAssistantLines ==
  { JsonLine(Doc(Some("assistant"), Absent, Some("s1"), Absent)),
    JsonLine(AssistantDoc(Some("m1"), Some(FullUsage), Some(ContentNotArray),
                          Some("s1"))) }

UserLines ==
  { JsonLine(UserDoc(Some(ContentArray(<<ToolResultItem("X", Some(Okay), FALSE)>>)),
                     Some([stdout |-> Some(Okay), stderr |-> Absent]))),
    JsonLine(UserDoc(Some(ContentArray(<<ToolResultItem("X", Some(Boom), TRUE)>>)),
                     Absent)),
    JsonLine(UserDoc(Some(ContentArray(<<ToolResultItem("Y", Some(CommitCmd), FALSE)>>)),
                     Absent)),
    JsonLine(UserDoc(Some(ContentArray(<<ToolResultItem("Y", Some(CommitCmd), TRUE)>>)),
                     Absent)),
    JsonLine(UserDoc(Some(ContentArray(<<ToolResultItem("Z", Some(PushUpper), FALSE)>>)),
                     Absent)),
    JsonLine(UserDoc(Some(ContentArray(<<ToolResultItem("X", Some(LongContent), TRUE)>>)),
                     Absent)),
    JsonLine(UserDoc(Some(ContentArray(<<TextItem(Some(Hi)),
                                         ToolResultItem("Y", Some(Okay), FALSE),
                                         ToolResultItem("X", Some(Boom), TRUE)>>)),
                     Absent)),
    JsonLine(UserDoc(Some(ContentArray(<<TextItem(Some(Hi))>>)), Absent)) }

\* a tool result without content, and a user message without message
MalformedUserLines ==
  { JsonLine(UserDoc(Some(ContentArray(<<ToolResultItem("X", Absent, TRUE)>>)),
                     Absent)),
    JsonLine(Doc(Some("user"), Absent, Absent, Absent)) }

\* the lines of the texts fed to parseChunk
RegisterX ==
  JsonLine(AssistantDoc(Some("m1"), Some(FullUsage),
                        Some(ContentArray(<<ToolUseItem("X", "Bash")>>)),
                        Some("s1")))
ResolveX ==
  JsonLine(UserDoc(Some(ContentArray(<<ToolResultItem("X", Some(Boom), TRUE)>>)),
                   Absent))
ChunkedLines ==
  { PlainLine(<<>>), MarkerLine(10, <<7>>, 10), RegisterX, ResolveX }

Lines ==
  BlankLines \cup MarkerLines \cup TextLines \cup OtherJsonLines
  \cup AssistantLines \cup MalformedAssistantLines
  \cup UserLines \cup MalformedUserLines

----------------------------------------------------------------------------
(* What a line is, read off the line itself *)

\* the line is empty or only whitespace
IsBlank(line) == line.text = <<>> /\ line.marker = Absent /\ line.doc = Absent

\* the line holds a loop marker
HasMarker(line) == loopMatch(trim(line)) # Absent

\* the line is valid JSON for an object whose type is ty
IsJsonOfType(line, ty) ==
  line.doc # Absent /\ ~line.doc[1].null /\ line.doc[1].type = Some(ty)

IsAssistantLine(line) == IsJsonOfType(line, "assistant")
IsUserLine(line) == IsJsonOfType(line, "user")

\* the content items of a message line, none when there is no content array
ItemsOf(line) ==
  IF /\ line.doc[1].message # Absent
     /\ line.doc[1].message[1].content # Absent
     /\ line.doc[1].message[1].content[1].array
  THEN line.doc[1].message[1].content[1].items
  ELSE <<>>

\* the tool invocations an assistant line registers, in order
InvocationsOf(line) ==
  IF IsAssistantLine(line) /\ ~HasMarker(line)
  THEN SelectSeq(ItemsOf(line), isToolUse)
  ELSE <<>>

\* the tool result a user line has processed: its first tool_result item
ResultOf(line) ==
  IF IsUserLine(line) /\ ~HasMarker(line)
     /\ SelectSeq(ItemsOf(line), isToolResult) # <<>>
  THEN Some(Head(SelectSeq(ItemsOf(line), isToolResult)))
  ELSE Absent

\* a field of the usage of an assistant line, 0 when it is not there
UsageOf(line, field) ==
  IF line.doc[1].message # Absent /\ line.doc[1].message[1].usage # Absent
  THEN OrZero(line.doc[1].message[1].usage[1][field])
  ELSE 0

----------------------------------------------------------------------------
(* The state machine *)

VARIABLES
  stats,             \* StreamParser.stats
  heap,              \* the arrays stats and the snapshots refer to
  pendingToolCalls,  \* StreamParser.pendingToolCalls
  buffer,            \* StreamParser.buffer
  now,               \* the clock new Date() and Date.now() read
  clockStep,         \* the milliseconds that pass between two calls
  snapshots,         \* the values getStats() has returned, oldest first
  lastOp,            \* the method called last
  lastLine,          \* the argument of the last parseLine
  lastEvent,         \* what the last parseLine returned
  nLines,            \* calls of parseLine so far
  nResets,           \* calls of reset() so far
  \* history, kept for the properties only
  prevIteration,     \* stats.iteration before the last parseLine
  lastMarker,        \* the digits of the last loop marker line since the reset
  openCalls,         \* id -> name of the invocations since the reset that no
                     \* result has answered yet
  everRegistered,    \* the <<id, name>> of all invocations since the reset
  droppedByReset,    \* the ids that were pending when reset() was last called
  stack,             \* the call of processLine that is running, if one is
  timerSaw,          \* what the interval timer's last getStats() returned
  fed,               \* the text given to parseChunk so far, all chunks joined
  nJoined,           \* the lines parseChunk put together from its buffer
                     \* and a later chunk, so far
  events,            \* the events the calls of parseChunk returned, joined
  ref,               \* a second parser, given the lines of fed by parseLine,
                     \* and the events it returned
  file,              \* the contents of the file --file names
  position,          \* position of index.ts: the offset the next read starts at
  nWrites,           \* the writes to the file so far
  watchedSize,       \* the size of the file when watchFile last looked at it
  streams,           \* the read streams that are open, each with its readline
  delivered,         \* the strings the readline interfaces gave processLine
  timerOn,           \* the interval of updateInterval is active
  destroyed,         \* dashboard.destroy() has been called
  taken              \* what each snapshot held when getStats() returned it

parserVars == <<stats, heap, pendingToolCalls, buffer>>
callVars == <<lastOp, lastLine, lastEvent>>
historyVars ==
  <<prevIteration, lastMarker, openCalls, everRegistered, droppedByReset>>
snapshotVars == <<snapshots, taken>>
loopVars == <<stack, timerSaw>>
chunkVars == <<fed, nJoined, events, ref>>
tailVars == <<file, nWrites, position, watchedSize, streams, delivered>>
shutdownVars == <<timerOn, destroyed>>

vars ==
  <<stats, heap, pendingToolCalls, buffer, now, clockStep, snapshots, lastOp, lastLine,
    lastEvent, nLines, nResets, prevIteration, lastMarker, openCalls,
    everRegistered, droppedByReset, taken, stack, timerSaw, fed, nJoined,
    events, ref, file, nWrites, position, watchedSize, streams, delivered, timerOn,
    destroyed>>

\* the parser as the methods see it
this == Engine(stats, heap, pendingToolCalls, buffer)

\* the time of the next call
later == now + clockStep

\* field initialisers and the constructor
Init ==
  /\ stats = createInitialStats(EmptyHeap, 0).stats
  /\ heap = createInitialStats(EmptyHeap, 0).heap
  /\ pendingToolCalls = EmptyMap
  /\ buffer = <<>>
  /\ now = 0
  /\ clockStep \in 0..MaxClockStep
  /\ snapshots = <<>>
  /\ lastOp = "new"
  /\ lastLine = PlainLine(<<>>)
  /\ lastEvent = NullReturn
  /\ nLines = 0
  /\ nResets = 0
  /\ prevIteration = 0
  /\ lastMarker = Absent
  /\ openCalls = EmptyMap
  /\ everRegistered = {}
  /\ droppedByReset = {}
  /\ taken = <<>>
  /\ stack = Absent
  /\ timerSaw = Absent
  /\ fed = <<>>
  /\ nJoined = 0
  /\ events = <<>>
  /\ ref = Outcome(this, <<>>)
  /\ file = <<>>
  /\ nWrites = 0
  /\ position = 0
  /\ watchedSize = 0
  /\ streams = <<>>
  /\ delivered = <<>>
  /\ timerOn = TRUE
  /\ destroyed = FALSE

RECURSIVE openAll(_, _)
\* openCalls after the invocations of one assistant line
openAll(open, invocations) ==
  IF invocations = <<>> THEN open
  ELSE openAll([k \in DOMAIN open \cup {invocations[1].id} |->
                  IF k = invocations[1].id THEN invocations[1].name ELSE open[k]],
               Tail(invocations))

\* openCalls after a line
openAfter(open, line) ==
  IF ResultOf(line) # Absent
  THEN [k \in DOMAIN open \ {ResultOf(line)[1].tool_use_id} |-> open[k]]
  ELSE openAll(open, InvocationsOf(line))

\* the history after parseLine(line)
Remember(line) ==
  /\ prevIteration' = stats.iteration
  /\ lastMarker' = IF ~IsBlank(line) /\ HasMarker(line)
                   THEN Some(trim(line).marker[1].digits) ELSE lastMarker
  /\ openCalls' = openAfter(openCalls, line)
  /\ everRegistered' =
       everRegistered \cup
       { <<InvocationsOf(line)[i].id, InvocationsOf(line)[i].name>> :
           i \in DOMAIN InvocationsOf(line) }
  /\ UNCHANGED droppedByReset

\* processLine of index.ts hands one line to parser.parseLine
ParseLine ==
  /\ nLines < MaxLines
  /\ \E line \in Lines :
       LET out == parseLine(this, line, later)
       IN  /\ stats' = out.eng.stats
           /\ heap' = out.eng.heap
           /\ pendingToolCalls' = out.eng.pending
           /\ buffer' = out.eng.buffer
           /\ lastLine' = line
           /\ lastEvent' = out.ret
           /\ Remember(line)
  /\ lastOp' = "parseLine"
  /\ nLines' = nLines + 1
  /\ now' = later
  /\ UNCHANGED <<clockStep, nResets, snapshots, taken, loopVars, chunkVars,
                 tailVars, shutdownVars>>

\* the arrays something still refers to: the parser's and the snapshots'
roots(s, snaps) ==
  {s.toolCalls, s.errors}
  \cup {snaps[i].toolCalls : i \in DOMAIN snaps}
  \cup {snaps[i].errors : i \in DOMAIN snaps}

Reset ==
  /\ nResets < MaxResets
  /\ LET e == reset(this, later)
     IN  /\ stats' = e.stats
         /\ heap' = collect(e.heap, roots(e.stats, snapshots))
         /\ pendingToolCalls' = e.pending
         /\ buffer' = e.buffer
  /\ lastOp' = "reset"
  /\ lastLine' = PlainLine(<<>>)
  /\ lastEvent' = NullReturn
  /\ nResets' = nResets + 1
  /\ now' = later
  /\ prevIteration' = 0
  /\ lastMarker' = Absent
  /\ openCalls' = EmptyMap
  /\ everRegistered' = {}
  /\ droppedByReset' = DOMAIN pendingToolCalls
  /\ UNCHANGED <<clockStep, nLines, snapshots, taken, loopVars, chunkVars,
                 tailVars, shutdownVars>>

Next == ParseLine \/ Reset

Spec == Init /\ [][Next]_vars

\* a snapshot with its two arrays read through the heap
deref(snapshot, h) ==
  [snapshot EXCEPT !.toolCalls = h[snapshot.toolCalls],
                   !.errors = h[snapshot.errors]]

\* the 500 ms timer, or processLine after an event: parser.getStats()
GetStats ==
  /\ Len(snapshots) < MaxSnapshots
  /\ snapshots' = Append(snapshots, getStats(this))
  /\ taken' = Append(taken, deref(getStats(this), heap))
  /\ lastOp' = "getStats"
  /\ UNCHANGED <<stats, heap, pendingToolCalls, buffer, now, clockStep, lastLine,
                 lastEvent, nLines, nResets, prevIteration, lastMarker,
                 openCalls, everRegistered, droppedByReset, loopVars, chunkVars,
                 tailVars, shutdownVars>>

\* the parser with a consumer that keeps the snapshots it was given
NextSnapshots == ParseLine \/ Reset \/ GetStats

SpecSnapshots == Init /\ [][NextSnapshots]_vars

----------------------------------------------------------------------------
(* The event loop of index.ts: a callback runs to its end before the next  *)
(* one starts.  The call of processLine in progress is kept with the       *)
(* parser it found and the states its statements still have to write.      *)

\* 'line' of a readline interface: processLine(line) is entered
LineEvent ==
  /\ stack = Absent
  /\ nLines < MaxPolledLines
  /\ \E line \in Lines :
       stack' = Some([line |-> line,
                      entry |-> this,
                      todo |-> parseLineSteps(this, line, later),
                      ret |-> parseLine(this, line, later).ret])
  /\ now' = later
  /\ UNCHANGED <<parserVars, clockStep, snapshotVars, callVars, nLines, nResets,
                 historyVars, timerSaw, chunkVars, tailVars, shutdownVars>>

\* the next statement of the running call; after the last one it returns
Statement ==
  /\ stack # Absent
  /\ LET frame == stack[1]
     IN  /\ stats' = frame.todo[1].stats
         /\ heap' = frame.todo[1].heap
         /\ pendingToolCalls' = frame.todo[1].pending
         /\ buffer' = frame.todo[1].buffer
         /\ IF Len(frame.todo) = 1
            THEN /\ stack' = Absent
                 /\ lastOp' = "parseLine"
                 /\ lastLine' = frame.line
                 /\ lastEvent' = frame.ret
                 /\ nLines' = nLines + 1
                 /\ Remember(frame.line)
            ELSE /\ stack' = Some([frame EXCEPT !.todo = Tail(@)])
                 /\ UNCHANGED <<callVars, nLines, historyVars>>
  /\ UNCHANGED <<now, clockStep, nResets, snapshotVars, timerSaw, chunkVars,
                 tailVars, shutdownVars>>

\* a timer that fires in the middle of a running callback
timerPreempts(running) == TRUE

\* the callback of setInterval is run by the event loop, when nothing runs
timerMayRun(running) == running = Absent

\* setInterval(() => dashboard.updateStats(parser.getStats()), 500)
Timer ==
  /\ timerOn
  /\ timerMayRun(stack)
  /\ timerSaw' = Some(deref(getStats(this), heap))
  /\ UNCHANGED <<parserVars, now, clockStep, snapshotVars, callVars, nLines,
                 nResets, historyVars, stack, chunkVars, tailVars, shutdownVars>>

NextLoop == LineEvent \/ Statement \/ Timer

SpecLoop == Init /\ [][NextLoop]_vars

----------------------------------------------------------------------------
(* A caller of parseChunk: a text of lines, each ended by a newline but     *)
(* perhaps the last, arrives cut into chunks at any place.                  *)

\* the part of a text after its last newline
lastRun(str) == splitNewline(str)[Len(splitNewline(str))]
\* the runs of a text that a newline ends
endedRuns(str) == SubSeq(splitNewline(str), 1, Len(splitNewline(str)) - 1)

\* the characters that may follow a text whose unfinished line is open: the
\* next piece of that line, the newline once the line is whole, the start of
\* any line or an empty line after a newline
nextChars(open) ==
  IF open = <<>>
  THEN {Newline} \cup {piece(line, 1) : line \in ChunkedLines \ {PlainLine(<<>>)}}
  ELSE IF Len(open) < PiecesPerLine
  THEN {piece(open[1].of, Len(open) + 1)}
  ELSE {Newline}

RECURSIVE continuations(_, _)
\* the chunks of at most n characters that may follow such a text
continuations(open, n) ==
  IF n = 0 THEN {<<>>}
  ELSE {<<>>} \cup
       UNION { { <<c>> \o rest :
                   rest \in continuations(IF c = Newline THEN <<>> ELSE Append(open, c),
                                          n - 1) } :
               c \in nextChars(open) }

\* the lines of a text a newline ends, passed one by one to parseLine
fedByLine(r, runs, t) == parseLines(r.eng, runs, r.ret, t)

ParseChunk ==
  /\ \E chunk \in continuations(lastRun(fed), MaxChunkLen) \ {<<>>} :
       \* the lines this chunk ends: those of the unfinished line and the chunk
       /\ LET new == endedRuns(lastRun(fed) \o chunk)
              out == parseChunk(this, chunk, later)
          IN  /\ nLines + Len(new) <= MaxChunkedLines
              /\ stats' = out.eng.stats
              /\ heap' = out.eng.heap
              /\ pendingToolCalls' = out.eng.pending
              /\ buffer' = out.eng.buffer
              /\ events' = events \o out.ret
              /\ ref' = fedByLine(ref, new, later)
              /\ nLines' = nLines + Len(new)
       /\ fed' = fed \o chunk
       /\ nJoined' = IF buffer # <<>> /\ \E i \in DOMAIN chunk : chunk[i] = Newline
                     THEN nJoined + 1 ELSE nJoined
  /\ lastOp' = "parseChunk"
  /\ now' = later
  /\ UNCHANGED <<clockStep, snapshotVars, lastLine, lastEvent, nResets,
                 historyVars, loopVars, tailVars, shutdownVars>>

NextChunks == ParseChunk

SpecChunks == Init /\ [][NextChunks]_vars

----------------------------------------------------------------------------
(* --file mode of index.ts.  Another process appends to the file; watchFile *)
(* calls readFromPosition when the file has changed; each read stream       *)
(* feeds a readline interface, which gives processLine the lines it finds   *)
(* and, when the stream ends, the characters after the last newline.        *)

\* the other process writes: whole lines, or any part of them
FileAppend ==
  /\ nWrites < MaxWrites
  /\ nWrites' = nWrites + 1
  /\ \E written \in continuations(lastRun(file), MaxWriteLen) \ {<<>>} :
       /\ Len(endedRuns(file \o written)) <= MaxFileLines
       /\ file' = file \o written
  /\ UNCHANGED <<parserVars, now, clockStep, snapshotVars, callVars, nLines,
                 nResets, historyVars, loopVars, chunkVars, position, watchedSize,
                 streams, delivered, shutdownVars>>

\* createReadStream(filePath, { start }) with createInterface on it
ReadStream(start, size) == [size |-> size, cursor |-> start]

\* the listener of watchFile: readFromPosition()
ReadFromPosition ==
  /\ Len(file) # watchedSize
  /\ watchedSize' = Len(file)
  /\ streams' = IF Len(file) > position
                THEN Append(streams, ReadStream(position, Len(file)))
                ELSE streams
  /\ UNCHANGED <<parserVars, now, clockStep, snapshotVars, callVars, nLines,
                 nResets, historyVars, loopVars, chunkVars, file, nWrites,
                 position, delivered, shutdownVars>>

\* what a stream has not read yet: the file from its cursor to its end
unread(stream) == SubSeq(file, stream.cursor + 1, Len(file))

\* processLine(line): the parser is given the line
ProcessLine(run) ==
  LET out == parseLine(this, lineFrom(run), later)
  IN  /\ stats' = out.eng.stats
      /\ heap' = out.eng.heap
      /\ pendingToolCalls' = out.eng.pending
      /\ buffer' = out.eng.buffer
      /\ lastOp' = "parseLine"
      /\ lastLine' = lineFrom(run)
      /\ lastEvent' = out.ret
      /\ Remember(lineFrom(run))
      /\ nLines' = nLines + 1
      /\ now' = later
      /\ delivered' = Append(delivered, run)

\* without the element at index i
removeAt(seq, i) == SubSeq(seq, 1, i - 1) \o SubSeq(seq, i + 1, Len(seq))

\* 'line' of a readline interface: the next line of its stream
StreamLine ==
  /\ \E i \in DOMAIN streams :
       /\ Len(splitNewline(unread(streams[i]))) > 1
       /\ LET run == splitNewline(unread(streams[i]))[1]
          IN  /\ ProcessLine(run)
              /\ streams' = [streams EXCEPT ![i].cursor = @ + Len(run) + 1]
  /\ UNCHANGED <<clockStep, snapshotVars, nResets, loopVars, chunkVars, file,
                 nWrites, position, watchedSize, shutdownVars>>

\* the stream has reached the end of the file: readline gives what is left
\* after the last newline as a line, and 'close' sets position = stat.size
StreamClose ==
  /\ \E i \in DOMAIN streams :
       /\ Len(splitNewline(unread(streams[i]))) = 1
       /\ IF unread(streams[i]) # <<>>
          THEN ProcessLine(unread(streams[i]))
          ELSE UNCHANGED <<parserVars, callVars, historyVars, nLines, now, delivered>>
       /\ position' = streams[i].size
       /\ streams' = removeAt(streams, i)
  /\ UNCHANGED <<clockStep, snapshotVars, nResets, loopVars, chunkVars, file,
                 nWrites, watchedSize, shutdownVars>>

\* SIGINT or SIGTERM: cleanup()
Signal ==
  /\ ~destroyed
  /\ timerOn' = FALSE
  /\ destroyed' = TRUE
  /\ UNCHANGED <<parserVars, now, clockStep, snapshotVars, callVars, nLines,
                 nResets, historyVars, loopVars, chunkVars, tailVars>>

NextTail ==
  FileAppend \/ ReadFromPosition \/ StreamLine \/ StreamClose \/ Timer
  \/ Signal

SpecTail == Init /\ [][NextTail]_vars

----------------------------------------------------------------------------
(* Properties.  A step of parseLine is a step that counts one more line;   *)
(* lastLine' is then the line it was given.                                *)

ParseStep == nLines' = nLines + 1

\* stats.toolCalls and stats.errors, as arrays
Calls == heap[stats.toolCalls]
Errors == heap[stats.errors]

Totals ==
  <<stats.totalInputTokens, stats.totalOutputTokens,
    stats.totalCacheReadTokens, stats.totalCacheCreationTokens>>

UsageVector(line) ==
  <<UsageOf(line, "input_tokens"), UsageOf(line, "output_tokens"),
    UsageOf(line, "cache_read_input_tokens"),
    UsageOf(line, "cache_creation_input_tokens")>>

\* each total grows by the line's usage field, and by nothing else
TotalsGrowBy(line) ==
  \A i \in DOMAIN Totals : Totals'[i] = Totals[i] + UsageVector(line)[i]

\* exactly one record is appended to the call history, and it satisfies Is
AppendsOne(Is(_)) ==
  /\ stats'.toolCalls = stats.toolCalls
  /\ Len(Calls') = Len(Calls) + 1
  /\ SubSeq(Calls', 1, Len(Calls)) = Calls
  /\ Is(Calls'[Len(Calls')])

\* C1, as stated: every assistant message line passed to parseLine adds its
\* usage fields to the four totals (an absent field adds 0), nothing else.
C1_EveryAssistantLine ==
  [][ParseStep /\ IsAssistantLine(lastLine') => TotalsGrowBy(lastLine')]_vars

\* C1, amended: every assistant message line that does not match the loop
\* marker pattern adds its usage fields to the four totals (an absent field
\* adds 0), nothing else.
C1_AssistantLineWithoutMarker ==
  [][ParseStep /\ IsAssistantLine(lastLine') /\ ~HasMarker(lastLine')
       => TotalsGrowBy(lastLine')]_vars

\* an assistant line with only input_tokens has been added to totals that
\* an earlier full usage had made non-zero
C1_Witness ==
  /\ lastOp = "parseLine"
  /\ IsAssistantLine(lastLine) /\ ~HasMarker(lastLine)
  /\ UsageVector(lastLine) = <<5, 0, 0, 0>>
  /\ Totals = <<8, 1, 2, 4>>

RECURSIVE DecimalValue(_)
\* the number a run of decimal digits writes
DecimalValue(digits) ==
  IF digits = <<>> THEN 0
  ELSE DecimalValue(SubSeq(digits, 1, Len(digits) - 1)) * 10 + digits[Len(digits)]

\* C2: the iteration is the number of the loop marker line processed last,
\* 0 when there was none; a smaller number than the current one overwrites it.
C2_IterationIsLastMarker ==
  stats.iteration = IF lastMarker = Absent THEN 0 ELSE DecimalValue(lastMarker[1])

\* a marker carrying 3 has just overwritten an iteration of 7
C2_Witness ==
  /\ lastOp = "parseLine"
  /\ HasMarker(lastLine)
  /\ lastMarker = Some(<<0, 3>>)
  /\ prevIteration = 7
  /\ stats.iteration = 3

\* the result of a user line is well formed: its content is a string
HasStringContent(result) == result.content # Absent

\* the step appends one record named name with a duration, and id is no
\* longer pending
ResolvesAs(id, name) ==
  /\ LET Is(rec) == rec.name = name /\ rec.duration # Absent
     IN  AppendsOne(Is)
  /\ id \notin DOMAIN pendingToolCalls'

\* C3, as stated: once an assistant message has registered id X with name N,
\* a later tool result for X in the same session, whatever lines come in
\* between, appends one record with name N and a duration, and X is no
\* longer pending.
C3_AnyInterleaving ==
  [][\A reg \in everRegistered :
       ParseStep /\ ResultOf(lastLine') # Absent
       /\ HasStringContent(ResultOf(lastLine')[1])
       /\ ResultOf(lastLine')[1].tool_use_id = reg[1]
       => ResolvesAs(reg[1], reg[2])]_vars

\* C3, amended: the same, when the lines in between hold no other tool
\* result for X and no other registration of X: N is the name X was last
\* registered with, and no result has answered that registration.
C3_RoundTrip ==
  [][ParseStep /\ ResultOf(lastLine') # Absent
     /\ HasStringContent(ResultOf(lastLine')[1])
     /\ ResultOf(lastLine')[1].tool_use_id \in DOMAIN openCalls
       => ResolvesAs(ResultOf(lastLine')[1].tool_use_id,
                     openCalls[ResultOf(lastLine')[1].tool_use_id])]_vars

\* Y, registered as the second invocation of a message, has been answered
\* after another line: the record carries its name and a duration
C3_Witness ==
  /\ lastOp = "parseLine"
  /\ nLines = 3
  /\ ResultOf(lastLine) # Absent
  /\ ResultOf(lastLine)[1].tool_use_id = "Y"
  /\ <<"Y", "Bash">> \in everRegistered
  /\ "Y" \notin DOMAIN pendingToolCalls
  /\ Len(Calls) = 1
  /\ Calls[1].name = "Bash" /\ Calls[1].duration # Absent

\* C4: a tool result whose id is not pending never fails; it appends one
\* record with name "unknown" and no duration and leaves the pending calls
\* as they were.
C4_UnresolvedResult ==
  [][ParseStep /\ ResultOf(lastLine') # Absent
     /\ ResultOf(lastLine')[1].tool_use_id \notin DOMAIN pendingToolCalls
       => /\ LET Is(rec) == rec.name = "unknown" /\ rec.duration = Absent
             IN  AppendsOne(Is)
          /\ pendingToolCalls' = pendingToolCalls
          /\ lastEvent'.type # "throw"]_vars

\* a second result for X, already resolved, has been recorded as unknown
C4_Witness ==
  /\ lastOp = "parseLine"
  /\ ResultOf(lastLine) # Absent
  /\ ResultOf(lastLine)[1].tool_use_id = "X"
  /\ \E name \in {"Bash", "Read"} : <<"X", name>> \in everRegistered
  /\ Len(Calls) = 2
  /\ Calls[1].name # "unknown" /\ Calls[1].duration # Absent
  /\ Calls[2].name = "unknown" /\ Calls[2].duration = Absent

\* C5: a value getStats() has returned is decoupled from the parser, its
\* toolCalls and errors included: lines processed after the call never
\* change a snapshot already handed out.
C5_SnapshotIsolation ==
  \A i \in DOMAIN snapshots : deref(snapshots[i], heap) = taken[i]

\* exactly one string is appended to the error list, and it satisfies Is
AppendsOneError(Is(_)) ==
  /\ stats'.errors = stats.errors
  /\ Len(Errors') = Len(Errors) + 1
  /\ SubSeq(Errors', 1, Len(Errors)) = Errors
  /\ Is(Errors'[Len(Errors')])

\* e is content cut to its first 200 characters
IsTruncated(e, content) ==
  /\ Len(e) = IF Len(content) <= 200 THEN Len(content) ELSE 200
  /\ \A i \in DOMAIN e : e[i] = content[i]

\* C6: a processed tool result with the error flag appends a record with
\* success = false and its content cut to 200 characters to the error
\* list; one without the flag appends a record with success = true and no
\* error. Every entry of the error list has at most 200 characters.
C6_ErrorResults ==
  /\ [](\A i \in DOMAIN Errors : Len(Errors[i]) <= 200)
  /\ [][ParseStep /\ ResultOf(lastLine') # Absent
        /\ HasStringContent(ResultOf(lastLine')[1])
          => LET result == ResultOf(lastLine')[1]
                 Failed(rec) == rec.success = FALSE
                 Succeeded(rec) == rec.success = TRUE
                 Cut(e) == IsTruncated(e, result.content[1])
             IN  IF result.is_error
                 THEN AppendsOne(Failed) /\ AppendsOneError(Cut)
                 ELSE AppendsOne(Succeeded) /\ Errors' = Errors]_vars

\* an error result of more than 200 characters has left an entry of 200
\* behind the entry "boom"
C6_Witness ==
  /\ lastOp = "parseLine"
  /\ ResultOf(lastLine) # Absent
  /\ ResultOf(lastLine)[1].is_error
  /\ HasStringContent(ResultOf(lastLine)[1])
  /\ Len(ResultOf(lastLine)[1].content[1]) > 200
  /\ Len(Errors) = 2
  /\ Errors[1] = Boom
  /\ Len(Errors[2]) = 200
  /\ Calls[2].success = FALSE

\* content holds sub, the case of the letters ignored
ContainsIgnoringCase(content, sub) ==
  \E i \in 0..(Len(content) - Len(sub)) :
    \A k \in DOMAIN sub : toLowerCaseChar(content[i + k]) = toLowerCaseChar(sub[k])

\* the result is one the commit heuristic is about
ReportsCommit(result) ==
  /\ ~result.is_error
  /\ result.content # Absent
  /\ \/ ContainsIgnoringCase(result.content[1], GitPush)
     \/ ContainsIgnoringCase(result.content[1], GitCommit)

\* C7: a processed tool result without the error flag whose content holds
\* "git push" or "git commit", in any letter case, sets lastCommitTime to
\* the time of the call; any other tool result leaves it as it was.
C7_CommitDetection ==
  [][ParseStep /\ ResultOf(lastLine') # Absent
       => IF ReportsCommit(ResultOf(lastLine')[1])
          THEN lastCommitTimeOf(stats') = Some(now')
          ELSE lastCommitTimeOf(stats') = lastCommitTimeOf(stats)]_vars

\* "$ GiT PUSH" has set lastCommitTime to the time of its call, later than
\* the start time
C7_Witness ==
  /\ lastOp = "parseLine"
  /\ ResultOf(lastLine) # Absent
  /\ ResultOf(lastLine)[1].content = Some(PushUpper)
  /\ lastCommitTimeOf(stats) = Some(now)
  /\ now > stats.startTime

\* the line without the whitespace around it
Trimmed(line) == Line(0, 0, line.text, line.marker, line.doc)

\* a JSON line that is not a well formed assistant or user message
IsMalformed(line) ==
  \/ line.doc[1].null
  \/ line.doc[1].message = Absent
  \/ /\ line.doc[1].message[1].content # Absent
     /\ ~line.doc[1].message[1].content[1].array
  \/ /\ ResultOf(line) # Absent
     /\ ~HasStringContent(ResultOf(line)[1])

\* C8: parseLine never raises. A blank line returns null and changes
\* nothing; a line that is neither a loop marker nor JSON returns an
\* unknown event holding the trimmed text; JSON that is no assistant or user
\* message, or a malformed one, returns an unknown event.
C8_NeverRaises ==
  /\ [](lastOp = "parseLine" =>
          /\ lastEvent.type # "throw"
          /\ IsBlank(lastLine) => lastEvent = NullReturn
          /\ ~IsBlank(lastLine) /\ ~HasMarker(lastLine) /\ lastLine.doc = Absent
               => /\ lastEvent.type = "unknown"
                  /\ lastEvent.data = [text |-> Trimmed(lastLine)]
          /\ (~HasMarker(lastLine) /\ lastLine.doc # Absent
              /\ (IsMalformed(lastLine)
                  \/ (~IsAssistantLine(lastLine) /\ ~IsUserLine(lastLine))))
               => lastEvent.type = "unknown")
  /\ [][ParseStep /\ IsBlank(lastLine')
          => UNCHANGED <<stats, heap, pendingToolCalls, buffer>>]_vars

\* JSON null, on which processMessage throws, has come back as an unknown
\* event after a padded free text line did
C8_Witness ==
  /\ lastOp = "parseLine"
  /\ lastLine = JsonLine(NullDoc)
  /\ lastEvent.type = "unknown"
  /\ lastEvent.data = [text |-> lastLine]
  /\ stats.lastActivity = now
  /\ now = 2

\* C9, as stated: the iteration after a processed line is at least the
\* iteration before it.
C9_NeverDecreases ==
  [][ParseStep => stats'.iteration >= stats.iteration]_vars

\* C9, amended: the iteration after a processed line is at least the
\* iteration before it, unless the line is a loop marker carrying a smaller
\* number, which becomes the iteration.
C9_DecreasesOnlyByMarker ==
  [][ParseStep
       => \/ stats'.iteration >= stats.iteration
          \/ /\ HasMarker(lastLine')
             /\ stats'.iteration = DecimalValue(lastLine'.marker[1].digits)]_vars

\* a marker carrying 7 has raised an iteration of 3
C9_Witness ==
  /\ lastOp = "parseLine"
  /\ HasMarker(lastLine)
  /\ prevIteration = 3
  /\ stats.iteration = 7

\* a is an initial part of b
IsPrefix(a, b) == Len(a) <= Len(b) /\ SubSeq(b, 1, Len(a)) = a

\* C10: over a call of parseLine the call history and the error list only
\* grow at the end, no record changing, and no token total decreases.
C10_AppendOnly ==
  [][ParseStep
       => /\ stats'.toolCalls = stats.toolCalls
          /\ stats'.errors = stats.errors
          /\ IsPrefix(Calls, Calls')
          /\ IsPrefix(Errors, Errors')
          /\ \A i \in DOMAIN Totals : Totals'[i] >= Totals[i]]_vars

\* two different records and an error follow one another after a message
\* with usage
C10_Witness ==
  /\ lastOp = "parseLine"
  /\ Len(Calls) = 2
  /\ Calls[1] # Calls[2]
  /\ Len(Errors) >= 1
  /\ Totals[1] > 0

\* a step of reset()
ResetStep == nResets' = nResets + 1

\* the statistics are those of a parser constructed at time t
AreDefaults(s, h, t) ==
  /\ s.iteration = 0
  /\ s.totalInputTokens = 0 /\ s.totalOutputTokens = 0
  /\ s.totalCacheReadTokens = 0 /\ s.totalCacheCreationTokens = 0
  /\ h[s.toolCalls] = <<>> /\ h[s.errors] = <<>>
  /\ s.currentModel = "unknown" /\ s.sessionId = ""
  /\ lastCommitTimeOf(s) = Absent
  /\ s.startTime = t

\* C11: reset(), in any state, empties the pending calls and puts the
\* statistics back to their defaults at construction (iteration 0, the four
\* totals 0, no calls, no errors, model "unknown", session "", no last commit
\* time, the start time that of the reset); a tool result that arrives after
\* the reset for an id that was pending before it, and has not been
\* registered since, is recorded with name "unknown" and no duration.
C11_ResetRestoresDefaults ==
  /\ [][ResetStep
          => /\ pendingToolCalls' = EmptyMap
             /\ AreDefaults(stats', heap', now')]_vars
  /\ [][ParseStep /\ ResultOf(lastLine') # Absent
        /\ ResultOf(lastLine')[1].tool_use_id \in droppedByReset
        /\ (\A reg \in everRegistered :
              reg[1] # ResultOf(lastLine')[1].tool_use_id)
          => LET Is(rec) == rec.name = "unknown" /\ rec.duration = Absent
             IN  AppendsOne(Is)]_vars

\* X was pending when reset() was called, at a time
\* later than the construction; its result, arriving after the reset, is the
\* only record, named "unknown"
C11_Witness ==
  /\ lastOp = "parseLine"
  /\ nResets = 1
  /\ "X" \in droppedByReset
  /\ ResultOf(lastLine) # Absent
  /\ ResultOf(lastLine)[1].tool_use_id = "X"
  /\ stats.startTime > 0
  /\ stats.iteration = 0 /\ Totals = <<0, 0, 0, 0>>
  /\ pendingToolCalls = EmptyMap
  /\ Len(Calls) = 1
  /\ Calls[1].name = "unknown" /\ Calls[1].duration = Absent

\* the statistics as the last callback that ran to its end left them
SettledStats ==
  IF stack = Absent
  THEN deref(stats, heap)
  ELSE deref(stack[1].entry.stats, stack[1].entry.heap)

\* C12: whatever the order of timer callbacks and line events, a snapshot
\* the timer takes is the statistics after a whole number of lines: never
\* the totals of a message with the model, session id, pending calls or call
\* history of the state before it. The state a line is left in is the one
\* parseLine computes for it.
C12_TimerSeesWholeLines ==
  /\ [][timerSaw' # timerSaw => timerSaw' = Some(SettledStats)]_vars
  /\ [][stack # Absent /\ stack' = Absent
          => this' = parseLine(stack[1].entry, stack[1].line, now).eng]_vars

\* the timer ran after a first assistant line; a second one has added to
\* the totals and has statements left to run
C12_Witness ==
  /\ stack # Absent
  /\ Len(stack[1].todo) >= 1
  /\ timerSaw = Some(SettledStats)
  /\ timerSaw[1].totalInputTokens = 3
  /\ timerSaw[1].currentModel = "m1"
  /\ stats.totalInputTokens = 8

\* C13: however a text is cut into chunks given one after the other to
\* parseChunk, the events returned, joined, and the statistics and pending
\* calls are those of parseLine called, at the same times, on each line of
\* the text that a newline ends, in order; what follows the last newline is
\* in the buffer and has not been classified.
C13_ChunksAreLines ==
  /\ events = ref.ret
  /\ deref(stats, heap) = deref(ref.eng.stats, ref.eng.heap)
  /\ pendingToolCalls = ref.eng.pending
  /\ buffer = lastRun(fed)

\* the line registering X and the line of its result were both cut, and
\* put together again: a tool_call and a tool_result event, the record of
\* the call, and the first piece of a third line in the buffer
C13_Witness ==
  /\ lastOp = "parseChunk"
  /\ nJoined = 2
  /\ fed = piecesOf(RegisterX) \o <<Newline>> \o piecesOf(ResolveX)
            \o <<Newline, piece(RegisterX, 1)>>
  /\ Len(events) = 2
  /\ events[1].type = "tool_call" /\ events[2].type = "tool_result"
  /\ pendingToolCalls = EmptyMap
  /\ Len(Calls) = 1 /\ Calls[1].name = "Bash"
  /\ buffer = <<piece(RegisterX, 1)>>

\* C14: in --file mode, whatever the order of writes to the file, watch
\* callbacks, line events and close events, what has been passed to
\* parseLine is the lines of the file that a newline ends, each once, in the
\* order of the file, none in parts.
C14_EachLineOnceInOrder == IsPrefix(delivered, endedRuns(file))

\* C15: once SIGINT or SIGTERM has been handled, the process accepts no
\* more input: no further line is passed to parseLine, and no read stream
\* is opened.
C15_StopsAfterSignal ==
  [][destroyed => nLines' = nLines /\ Len(streams') <= Len(streams)]_vars

\* the ids the tool invocations of a line register
RegisteredBy(line) ==
  {InvocationsOf(line)[i].id : i \in DOMAIN InvocationsOf(line)}

\* the ids of all the tool results a user line carries
ResultIdsIn(line) ==
  IF IsUserLine(line) /\ ~HasMarker(line)
  THEN {ItemsOf(line)[i].tool_use_id :
          i \in {j \in DOMAIN ItemsOf(line) : isToolResult(ItemsOf(line)[j])}}
  ELSE {}

\* the id whose tool_result event a call of parseLine returned, if it did
AnsweredBy(line, event) ==
  IF event.type = "tool_result" THEN {ResultOf(line)[1].tool_use_id} ELSE {}

\* no call is pending before the first line
StartsEmpty == nLines = 0 /\ nResets = 0 => pendingToolCalls = EmptyMap

\* after a line an id is pending exactly when the line registers it, or it
\* was pending and is not among the ids removed
PendingFollows(removed) ==
  \A id \in DOMAIN pendingToolCalls \cup DOMAIN pendingToolCalls'
            \cup RegisteredBy(lastLine') \cup ResultIdsIn(lastLine') :
    id \in DOMAIN pendingToolCalls'
      <=> \/ id \in RegisteredBy(lastLine')
          \/ id \in DOMAIN pendingToolCalls /\ id \notin removed

\* C16, as stated: an id is pending exactly when a tool invocation has
\* registered it since the last reset and no tool result with that id has
\* arrived since it was last registered; nothing but a matching result or
\* reset() removes an entry.
C16_PendingUntilAnyResult ==
  /\ []StartsEmpty
  /\ [][ResetStep => pendingToolCalls' = EmptyMap]_vars
  /\ [][ParseStep => PendingFollows(ResultIdsIn(lastLine'))]_vars

\* C16, amended: an id is pending exactly when a tool invocation has
\* registered it since the last reset and parseLine has returned no
\* tool_result event for that id since it was last registered; nothing but
\* such an event or reset() removes an entry.
C16_PendingUntilResultEvent ==
  /\ []StartsEmpty
  /\ [][ResetStep => pendingToolCalls' = EmptyMap]_vars
  /\ [][ParseStep => PendingFollows(AnsweredBy(lastLine', lastEvent'))]_vars

\* X and Y were registered by one message; the result for X has removed X
\* and left Y
C16_Witness ==
  /\ lastOp = "parseLine"
  /\ lastEvent.type = "tool_result"
  /\ AnsweredBy(lastLine, lastEvent) = {"X"}
  /\ <<"X", "Read">> \in everRegistered
  /\ <<"Y", "Bash">> \in everRegistered
  /\ DOMAIN pendingToolCalls = {"Y"}
  /\ pendingToolCalls["Y"].name = "Bash"

\* C17: after an assistant message with one or more tool invocations has
\* been processed, every one of their ids is pending under its own tool
\* name, and the one event returned is a tool_call with the name, the input
\* and the id of the first invocation, text items or not.
C17_AllRegisteredFirstSurfaced ==
  [][ParseStep /\ Len(InvocationsOf(lastLine')) >= 1
       => LET invocations == InvocationsOf(lastLine')
          IN  /\ \A i \in DOMAIN invocations :
                   /\ invocations[i].id \in DOMAIN pendingToolCalls'
                   /\ pendingToolCalls'[invocations[i].id].name = invocations[i].name
              /\ lastEvent'.type = "tool_call"
              /\ lastEvent'.data.name = invocations[1].name
              /\ lastEvent'.data.input = invocations[1].input
              /\ lastEvent'.data.id = invocations[1].id]_vars

\* a message with a text item and invocations X (Read) and Y (Bash): both
\* are pending and the event is the tool_call of X
C17_Witness ==
  /\ lastOp = "parseLine"
  /\ Len(InvocationsOf(lastLine)) = 2
  /\ Len(ItemsOf(lastLine)) = 3
  /\ isText(ItemsOf(lastLine)[1])
  /\ DOMAIN pendingToolCalls = {"X", "Y"}
  /\ pendingToolCalls["X"].name = "Read"
  /\ pendingToolCalls["Y"].name = "Bash"
  /\ lastEvent.type = "tool_call"
  /\ lastEvent.data.id = "X" /\ lastEvent.data.name = "Read"

\* C18: of a user message only the first tool result is processed, however
\* many follow it: parseLine returns the one tool_result event made from it,
\* appends one record, and removes no id from the pending calls but its
\* own; a user message without a tool result returns unknown and appends
\* no record.
C18_OnlyFirstResult ==
  [][ParseStep /\ IsUserLine(lastLine') /\ ~HasMarker(lastLine')
     /\ ~IsMalformed(lastLine')
       => IF ResultOf(lastLine') # Absent
          THEN LET result == ResultOf(lastLine')[1]
                   Is(rec) == rec.success = ~result.is_error
               IN  /\ lastEvent'.type = "tool_result"
                   /\ lastEvent'.data.success = ~result.is_error
                   /\ lastEvent'.data.content = result.content
                   /\ AppendsOne(Is)
                   /\ pendingToolCalls' = mapDelete(pendingToolCalls, result.tool_use_id)
          ELSE /\ lastEvent'.type = "unknown"
               /\ Calls' = Calls
               /\ pendingToolCalls' = pendingToolCalls]_vars

\* a message with a text item, a result for Y and an error result for X,
\* both pending before: the event and the one record are those of Y, no
\* error is recorded and X is still pending
C18_Witness ==
  /\ lastOp = "parseLine"
  /\ IsUserLine(lastLine)
  /\ Len(SelectSeq(ItemsOf(lastLine), isToolResult)) = 2
  /\ ResultOf(lastLine)[1].tool_use_id = "Y"
  /\ <<"Y", "Bash">> \in everRegistered
  /\ lastEvent.type = "tool_result" /\ lastEvent.data.success = TRUE
  /\ Len(Calls) = 1 /\ Calls[1].name = "Bash" /\ Calls[1].success = TRUE
  /\ Errors = <<>>
  /\ DOMAIN pendingToolCalls = {"X"}

\* C19: the loop marker is looked for before JSON.parse and instead of it:
\* for a line that holds the marker, a valid JSON message or not, parseLine
\* returns a loop_marker event with the marker's number and changes the
\* iteration only; the totals, model, session id, pending calls, toolCalls,
\* errors, lastActivity and lastCommitTime are as before.
C19_MarkerShortCircuits ==
  [][ParseStep /\ HasMarker(lastLine')
       => /\ lastEvent'.type = "loop_marker"
          /\ lastEvent'.data.iteration = DecimalValue(lastLine'.marker[1].digits)
          /\ stats' = [stats EXCEPT !.iteration =
                                      DecimalValue(lastLine'.marker[1].digits)]
          /\ lastCommitTimeOf(stats') = lastCommitTimeOf(stats)
          /\ heap' = heap
          /\ pendingToolCalls' = pendingToolCalls]_vars

\* an assistant message with usage, model m2 and an invocation Y, holding
\* the marker of loop 2, after a message that registered X and a commit:
\* iteration 2, and totals, model, pending calls and times as they were
C19_Witness ==
  /\ lastOp = "parseLine"
  /\ IsAssistantLine(lastLine) /\ HasMarker(lastLine)
  /\ UsageVector(lastLine) = <<3, 1, 2, 4>>
  /\ lastEvent.type = "loop_marker"
  /\ stats.iteration = 2
  /\ Totals = <<3, 1, 2, 4>>
  /\ stats.currentModel = "m1"
  /\ DOMAIN pendingToolCalls = {"X"}
  /\ lastCommitTimeOf(stats) # Absent
  /\ stats.lastActivity < now

\* the call returned a text or an unknown event
ReturnsTextOrUnknown == ParseStep /\ lastEvent'.type \in {"text", "unknown"}

\* C20, as stated: a call of parseLine that returns a text or an unknown
\* event sets lastActivity to the time of the call and changes nothing else:
\* totals, iteration, model, session id, toolCalls, errors, lastCommitTime
\* and the pending calls are as before.
C20_OnlyLastActivity ==
  [][ReturnsTextOrUnknown
       => /\ stats' = [stats EXCEPT !.lastActivity = now']
          /\ heap' = heap
          /\ pendingToolCalls' = pendingToolCalls]_vars

\* the model and the session id an assistant line brings, when its message
\* is there to be read
ModelOf(line) ==
  IF line.doc[1].message # Absent THEN line.doc[1].message[1].model ELSE Absent
SessionOf(line) ==
  IF line.doc[1].message # Absent THEN line.doc[1].session_id ELSE Absent

\* C20, amended: a call of parseLine that returns a text or an unknown event
\* leaves iteration, errors, lastCommitTime and the pending calls as they
\* were. lastActivity becomes the time of the call when the line is JSON and
\* stays otherwise. When the line is an assistant message the totals grow
\* by its usage and model and session id take its non-empty values;
\* otherwise totals, model and session id stay. toolCalls stays, but for a
\* user message whose first tool result fails in processing: its record
\* has been appended.
C20_TextOrUnknownFrame ==
  [][ReturnsTextOrUnknown
       => /\ stats'.iteration = stats.iteration
          /\ stats'.startTime = stats.startTime
          /\ stats'.errors = stats.errors /\ Errors' = Errors
          /\ lastCommitTimeOf(stats') = lastCommitTimeOf(stats)
          /\ pendingToolCalls' = pendingToolCalls
          /\ stats'.lastActivity =
               IF lastLine'.doc # Absent THEN now' ELSE stats.lastActivity
          /\ IF IsAssistantLine(lastLine')
             THEN /\ TotalsGrowBy(lastLine')
                  /\ stats'.currentModel =
                       IF TruthyStr(ModelOf(lastLine'))
                       THEN ModelOf(lastLine')[1] ELSE stats.currentModel
                  /\ stats'.sessionId =
                       IF TruthyStr(SessionOf(lastLine'))
                       THEN SessionOf(lastLine')[1] ELSE stats.sessionId
             ELSE /\ Totals' = Totals
                  /\ stats'.currentModel = stats.currentModel
                  /\ stats'.sessionId = stats.sessionId
          /\ stats'.toolCalls = stats.toolCalls
          /\ IF ResultOf(lastLine') # Absent
             THEN LET Is(rec) == TRUE IN AppendsOne(Is)
             ELSE Calls' = Calls]_vars

\* a text event has come back for an assistant message with usage and no
\* model: the totals have grown, the model is the earlier one
C20_Witness ==
  /\ lastOp = "parseLine"
  /\ lastEvent.type = "text"
  /\ lastEvent.data.text = Hi \o <<"\n">> \o Yo
  /\ Totals = <<8, 1, 2, 4>>
  /\ stats.currentModel = "m1"
  /\ stats.lastActivity = now
  /\ now = 2

\* the line reaches processMessage: it is JSON and holds no loop marker
IsStructured(line) == line.doc # Absent /\ ~HasMarker(line)

\* C21: a line that is JSON (an assistant message, a user message or any
\* other document) and is not taken for a loop marker sets lastActivity to
\* the time of the call; every other line leaves lastActivity as it was, so
\* a snapshot shows the time of the last such line until the next one.
C21_LastActivityOnStructuredLines ==
  [][ParseStep
       => stats'.lastActivity =
            IF IsStructured(lastLine') THEN now' ELSE stats.lastActivity]_vars

\* a JSON line that is no message with usage or a result set lastActivity
\* at time 1; the marker line and the text line after it, at times 2 and 3,
\* have left it there
C21_Witness ==
  /\ lastOp = "parseLine"
  /\ nLines = 3
  /\ ~IsStructured(lastLine) /\ lastLine.doc = Absent /\ ~HasMarker(lastLine)
  /\ ~IsBlank(lastLine)
  /\ stats.iteration = 7
  /\ stats.sessionId = "" /\ Totals = <<0, 0, 0, 0>> /\ Calls = <<>>
  /\ stats.startTime = 0
  /\ stats.lastActivity = 1
  /\ now = 3

\* the line is processed as an assistant message
IsAssistantMessage(line) == IsAssistantLine(line) /\ ~HasMarker(line)

\* the value after a line: the one the line's assistant message carries when
\* it is a non-empty string, the prior one otherwise
LastWrite(line, carried, prior) ==
  IF IsAssistantMessage(line) /\ TruthyStr(carried) THEN carried[1] ELSE prior

\* C22: model and session id are last-write-wins over assistant messages.
\* They start as "unknown" and "". Every line leaves each of them as it
\* was, except an assistant message carrying a non-empty value for it,
\* which becomes the field's value; so after any sequence of lines each
\* holds the value of the most recent assistant message that carried one.
\* A document of type assistant without its message object carries neither.
C22_LastWriteWins ==
  /\ [](lastOp \in {"new", "reset"}
          => stats.currentModel = "unknown" /\ stats.sessionId = "")
  /\ [][ParseStep
          => /\ stats'.currentModel =
                  LastWrite(lastLine', ModelOf(lastLine'), stats.currentModel)
             /\ stats'.sessionId =
                  LastWrite(lastLine', SessionOf(lastLine'), stats.sessionId)]_vars

\* after the messages carrying m1/s1 and m2/s2, in this order, an assistant
\* message with an empty model and an empty session id has left m2 and s2
C22_Witness ==
  /\ lastOp = "parseLine"
  /\ nLines = 3
  /\ IsAssistantMessage(lastLine)
  /\ ModelOf(lastLine) = Some("") /\ SessionOf(lastLine) = Some("")
  /\ Totals = <<8, 1, 2, 4>>
  /\ DOMAIN pendingToolCalls = {"X", "Y"}
  /\ pendingToolCalls["X"].name = "Read"
  /\ stats.currentModel = "m2" /\ stats.sessionId = "s2"

\* the text items of a line, in order
TextItemsOf(line) == SelectSeq(ItemsOf(line), isText)

RECURSIVE InOrderWithNewlines(_)
\* the texts of the items one after the other, a newline before each but
\* the first
InOrderWithNewlines(items) ==
  IF Len(items) = 1 THEN items[1].text[1]
  ELSE InOrderWithNewlines(SubSeq(items, 1, Len(items) - 1))
       \o <<"\n">> \o items[Len(items)].text[1]

\* C23: the event of an assistant message is decided by its content:
\* tool_call when it holds at least one tool invocation; otherwise one text
\* event whose text is its text items in order, joined by newlines, when it
\* holds at least one text item; otherwise unknown.
C23_ContentPriority ==
  lastOp = "parseLine" /\ IsAssistantMessage(lastLine)
    => IF InvocationsOf(lastLine) # <<>>
       THEN lastEvent.type = "tool_call"
       ELSE IF TextItemsOf(lastLine) # <<>>
       THEN /\ lastEvent.type = "text"
            /\ lastEvent.data.text = InOrderWithNewlines(TextItemsOf(lastLine))
       ELSE lastEvent.type = "unknown"

\* the first line is a message of two text items and no invocation: the
\* event is the text of both, with the newline between them
C23_Witness ==
  /\ lastOp = "parseLine"
  /\ nLines = 1
  /\ IsAssistantMessage(lastLine)
  /\ InvocationsOf(lastLine) = <<>>
  /\ Len(TextItemsOf(lastLine)) = 2
  /\ lastEvent.type = "text"
  /\ lastEvent.data.text = <<"h", "i", "\n", "y", "o">>
  /\ pendingToolCalls = EmptyMap

\* the call that appended a record also took the result's id out of the
\* pending calls and returned a tool_result event
AppendCompletes ==
  Calls' # Calls
    => /\ ResultOf(lastLine') # Absent
       /\ ResultOf(lastLine')[1].tool_use_id \notin DOMAIN pendingToolCalls'
       /\ lastEvent'.type = "tool_result"

\* the call that returned an unknown event left the call history, the
\* errors, the totals and the pending calls as they were
UnknownLeavesHistory ==
  lastEvent'.type = "unknown"
    => /\ stats'.toolCalls = stats.toolCalls /\ Calls' = Calls
       /\ stats'.errors = stats.errors /\ Errors' = Errors
       /\ Totals' = Totals
       /\ pendingToolCalls' = pendingToolCalls

\* C24: a call of parseLine is all-or-nothing for the call history. When it
\* appends a record it also removes the result's id from the pending calls
\* and returns a tool_result event; when it returns an unknown event, also
\* after a failure inside the processing that was caught, toolCalls, errors,
\* the token totals and the pending calls are as before the call.
C24_AllOrNothing ==
  [][ParseStep => AppendCompletes /\ UnknownLeavesHistory]_vars

\* the name the line registers id with: that of its last invocation
\* carrying the id
NameRegisteredBy(line, id) ==
  LET invocations == InvocationsOf(line)
      last == CHOOSE i \in DOMAIN invocations :
                /\ invocations[i].id = id
                /\ \A j \in (i + 1)..Len(invocations) : invocations[j].id # id
  IN  invocations[last].name

\* id has been registered since the reset, and a tool result for it has
\* been processed since it was last registered
Consumed(id) ==
  /\ \E reg \in everRegistered : reg[1] = id
  /\ id \notin DOMAIN openCalls

\* C25: a registration of an id is consumed by at most one result. The
\* pending calls hold one entry per id: registering an id replaces the name
\* and the start time of the entry it may have. Once one tool result for an
\* id has been processed, a further tool result for it, with no registration
\* of the id in between, is recorded with name "unknown" and no duration.
C25_OneResultPerRegistration ==
  /\ [][ParseStep
          => \A id \in RegisteredBy(lastLine') :
               pendingToolCalls'[id] =
                 [name |-> NameRegisteredBy(lastLine', id), startTime |-> now']]_vars
  /\ [][ParseStep /\ ResultOf(lastLine') # Absent
        /\ Consumed(ResultOf(lastLine')[1].tool_use_id)
          => LET Is(rec) == rec.name = "unknown" /\ rec.duration = Absent
             IN  AppendsOne(Is)]_vars

\* the four token totals
TotalFields ==
  {"totalInputTokens", "totalOutputTokens", "totalCacheReadTokens",
   "totalCacheCreationTokens"}

\* C26: every snapshot getStats() returns, that of a new or a reset parser
\* too, holds every field Dashboard.updateStats dereferences (startTime,
\* toolCalls, currentModel, the subagents sequence) and the token totals, so
\* that updateStats(parser.getStats()) never fails on a missing field.
C26_SnapshotHasEveryField ==
  \A i \in DOMAIN snapshots :
    /\ DereferencedFields \cup TotalFields \subseteq DOMAIN snapshots[i]
    /\ updateStats(snapshots[i]).type # "throw"

====
